---- MODULE Spec2Model ----
(***************************************************************************)
(* Model of src-tauri/src/lib.rs: the two Tauri commands run_seo_check and *)
(* get_available_presets.  Every invocation of run_seo_check is a process  *)
(* of its own (an async task of the command dispatcher) that walks through *)
(* the statements of the function; the external `node dist/cli.js` process *)
(* is the environment.  Byte strings are sequences of byte values, decoded *)
(* text is a sequence of Unicode code points.                              *)
(***************************************************************************)
EXTENDS Integers, Sequences, FiniteSets, TLC

(* ------------------------------ bounds --------------------------------- *)
\* number of invocation slots of run_seo_check that may be in flight
NumCalls == 2
\* longest stdout enumerated exhaustively over OutAlphabet
MaxOut == 3
\* longest stderr enumerated exhaustively over ErrAlphabet
MaxErr == 2
\* number of get_available_presets calls that are counted
MaxPresetCalls == 2

Calls == 1..NumCalls

(* ------------------------------ bytes ---------------------------------- *)
\* names of the byte values used below
B == [sp |-> 32, quote |-> 34, comma |-> 44, minus |-> 45, zero |-> 48,
      nine |-> 57, colon |-> 58, lbrack |-> 91, rbrack |-> 93,
      lbrace |-> 123, rbrace |-> 125, bslash |-> 92, dot |-> 46,
      tab |-> 9, lf |-> 10, cr |-> 13,
      a |-> 97, lead2 |-> 195, cont |-> 169, bad |-> 255,
      fffd |-> 65533]

\* U+FFFD REPLACEMENT CHARACTER
Replacement == B.fffd

RECURSIVE SeqsUpTo(_, _)
SeqsUpTo(S, n) ==
    IF n = 0 THEN {<<>>}
    ELSE LET shorter == SeqsUpTo(S, n - 1)
         IN  shorter \cup {Append(s, x) : s \in shorter, x \in S}

(* ------------------- String::from_utf8_lossy --------------------------- *)
\* Decoding of one position: ASCII bytes are themselves, a two-byte lead
\* (C2..DF) followed by a continuation byte (80..BF) is one code point, and
\* every other byte is an invalid sequence of length one.  (Three- and
\* four-byte leads E0..F4 are outside the byte alphabets of this model.)
IsAscii(b) == b < 128
IsLead2(b) == b >= 194 /\ b <= 223
IsCont(b)  == b >= 128 /\ b <= 191

RECURSIVE Utf8Chunks(_, _, _, _)
Utf8Chunks(bytes, i, acc, lossy) ==
    IF i > Len(bytes) THEN [chars |-> acc, lossy |-> lossy]
    ELSE LET b == bytes[i] IN
         IF IsAscii(b) THEN Utf8Chunks(bytes, i + 1, Append(acc, b), lossy)
         ELSE IF IsLead2(b) /\ i < Len(bytes) /\ IsCont(bytes[i + 1])
         THEN Utf8Chunks(bytes, i + 2,
                         Append(acc, (b - 192) * 64 + (bytes[i + 1] - 128)), lossy)
         ELSE Utf8Chunks(bytes, i + 1, Append(acc, Replacement), TRUE)

\* String::from_utf8_lossy(&bytes): never fails
FromUtf8Lossy(bytes) == Utf8Chunks(bytes, 1, <<>>, FALSE).chars

\* whether the bytes are valid UTF-8 (std::str::from_utf8 would succeed)
ValidUtf8(bytes) == ~Utf8Chunks(bytes, 1, <<>>, FALSE).lossy

(* ------------------- serde_json::from_str::<Value> --------------------- *)
\* serde_json::Value
JNull      == [t |-> "null"]
JBool(b)   == [t |-> "bool", b |-> b]
JNumber(n) == [t |-> "number", n |-> n]
JNegZero   == [t |-> "number", f |-> "-0.0"]
JString(s) == [t |-> "string", s |-> s]
JArray(xs) == [t |-> "array", xs |-> xs]
JObject(m) == [t |-> "object", m |-> m]

POk(v, next) == [ok |-> TRUE, val |-> v, next |-> next]
PErr(e)      == [ok |-> FALSE, err |-> e]

IsWs(ch)    == ch \in {B.sp, B.tab, B.lf, B.cr}
IsDigit(ch) == ch >= B.zero /\ ch <= B.nine

RECURSIVE SkipWs(_, _)
SkipWs(s, i) == IF i <= Len(s) /\ IsWs(s[i]) THEN SkipWs(s, i + 1) ELSE i

\* parse_ident: the rest of null / true / false
ParseIdent(s, i, word, v) ==
    LET n == Len(word) IN
    IF i + n - 1 > Len(s)
    THEN IF SubSeq(s, i, Len(s)) = SubSeq(word, 1, Len(s) - i + 1)
         THEN PErr("EofWhileParsingValue") ELSE PErr("ExpectedSomeIdent")
    ELSE IF SubSeq(s, i, i + n - 1) = word THEN POk(v, i + n)
         ELSE PErr("ExpectedSomeIdent")

RECURSIVE ParseDigits(_, _, _)
ParseDigits(s, i, acc) ==
    IF i <= Len(s) /\ IsDigit(s[i])
    THEN ParseDigits(s, i + 1, acc * 10 + (s[i] - B.zero))
    ELSE [n |-> acc, next |-> i]

\* parse_integer, for the integers; a fraction or an exponent after the
\* digits is outside the byte alphabets of this model
ParseNumber(s, i) ==
    LET neg == s[i] = B.minus
        j   == IF neg THEN i + 1 ELSE i
    IN  IF j > Len(s) THEN PErr("EofWhileParsingValue")
        ELSE IF ~IsDigit(s[j]) THEN PErr("InvalidNumber")
        ELSE IF s[j] = B.zero /\ j < Len(s) /\ IsDigit(s[j + 1])
        THEN PErr("InvalidNumber")
        ELSE LET d == ParseDigits(s, j, 0) IN
             IF d.next <= Len(s) /\ s[d.next] \in {B.dot, 69, 101}
             THEN PErr("FloatNotModelled")
             ELSE IF neg /\ d.n = 0 THEN POk(JNegZero, d.next)
             ELSE POk(JNumber(IF neg THEN 0 - d.n ELSE d.n), d.next)

\* parse_str after the opening quote; escapes are outside the byte
\* alphabets of this model
RECURSIVE ParseStr(_, _, _)
ParseStr(s, i, acc) ==
    IF i > Len(s) THEN PErr("EofWhileParsingString")
    ELSE IF s[i] = B.quote THEN POk(acc, i + 1)
    ELSE IF s[i] = B.bslash THEN PErr("EscapeNotModelled")
    ELSE IF s[i] < B.sp THEN PErr("ControlCharacterWhileParsingString")
    ELSE ParseStr(s, i + 1, Append(acc, s[i]))

RECURSIVE ParseValue(_, _)
RECURSIVE ParseElems(_, _, _)
RECURSIVE ParseMembers(_, _, _)

\* the elements of an array, i at the start of an element
ParseElems(s, i, acc) ==
    LET r == ParseValue(s, i) IN
    IF ~r.ok THEN r
    ELSE LET j   == SkipWs(s, r.next)
             xs  == Append(acc, r.val)
         IN  IF j > Len(s) THEN PErr("EofWhileParsingList")
             ELSE IF s[j] = B.rbrack THEN POk(JArray(xs), j + 1)
             ELSE IF s[j] = B.comma
             THEN LET k == SkipWs(s, j + 1) IN
                  IF k <= Len(s) /\ s[k] = B.rbrack THEN PErr("TrailingComma")
                  ELSE ParseElems(s, k, xs)
             ELSE PErr("ExpectedListCommaOrEnd")

\* the members of an object, i at the start of a key; a repeated key keeps
\* the last value (Map::insert)
ParseMembers(s, i, m) ==
    IF i > Len(s) THEN PErr("EofWhileParsingObject")
    ELSE IF s[i] # B.quote THEN PErr("KeyMustBeAString")
    ELSE LET key == ParseStr(s, i + 1, <<>>) IN
         IF ~key.ok THEN key
         ELSE LET c == SkipWs(s, key.next) IN
              IF c > Len(s) THEN PErr("EofWhileParsingObject")
              ELSE IF s[c] # B.colon THEN PErr("ExpectedColon")
              ELSE LET r == ParseValue(s, SkipWs(s, c + 1)) IN
                   IF ~r.ok THEN r
                   ELSE LET j  == SkipWs(s, r.next)
                            m2 == (key.val :> r.val) @@ m
                        IN  IF j > Len(s) THEN PErr("EofWhileParsingObject")
                            ELSE IF s[j] = B.rbrace THEN POk(JObject(m2), j + 1)
                            ELSE IF s[j] = B.comma
                            THEN LET k == SkipWs(s, j + 1) IN
                                 IF k <= Len(s) /\ s[k] = B.rbrace
                                 THEN PErr("TrailingComma")
                                 ELSE ParseMembers(s, k, m2)
                            ELSE PErr("ExpectedObjectCommaOrEnd")

\* parse_value, i past the leading whitespace
ParseValue(s, i) ==
    IF i > Len(s) THEN PErr("EofWhileParsingValue")
    ELSE LET ch == s[i] IN
         IF ch = 110 THEN ParseIdent(s, i + 1, <<117, 108, 108>>, JNull)
         ELSE IF ch = 116 THEN ParseIdent(s, i + 1, <<114, 117, 101>>, JBool(TRUE))
         ELSE IF ch = 102 THEN ParseIdent(s, i + 1, <<97, 108, 115, 101>>, JBool(FALSE))
         ELSE IF ch = B.minus \/ IsDigit(ch) THEN ParseNumber(s, i)
         ELSE IF ch = B.quote
         THEN LET r == ParseStr(s, i + 1, <<>>) IN
              IF r.ok THEN POk(JString(r.val), r.next) ELSE r
         ELSE IF ch = B.lbrack
         THEN LET j == SkipWs(s, i + 1) IN
              IF j > Len(s) THEN PErr("EofWhileParsingList")
              ELSE IF s[j] = B.rbrack THEN POk(JArray(<<>>), j + 1)
              ELSE ParseElems(s, j, <<>>)
         ELSE IF ch = B.lbrace
         THEN LET j == SkipWs(s, i + 1) IN
              IF j > Len(s) THEN PErr("EofWhileParsingObject")
              ELSE IF s[j] = B.rbrace THEN POk(JObject(<<>>), j + 1)
              ELSE ParseMembers(s, j, <<>>)
         ELSE PErr("ExpectedSomeValue")

\* serde_json::from_str: one value, then only whitespace up to the end
FromStr(s) ==
    LET r == ParseValue(s, SkipWs(s, 1)) IN
    IF ~r.ok THEN r
    ELSE IF SkipWs(s, r.next) <= Len(s) THEN PErr("TrailingCharacters")
    ELSE POk(r.val, r.next)

(* ------------------------------ values --------------------------------- *)
\* Option<T>
None    == [some |-> FALSE]
Some(v) == [some |-> TRUE, v |-> v]

\* struct SeoCheckResult
SeoCheckResult(success, data, error) ==
    [success |-> success, data |-> data, error |-> error]

\* Result<SeoCheckResult, String> as the command returns it; Pending while
\* the call runs, Panicked when the task unwound instead of returning
Pending   == [kind |-> "Pending"]
Ok(v)     == [kind |-> "Ok", value |-> v]
Err(msg)  == [kind |-> "Err", msg |-> msg]
Panicked  == [kind |-> "Panicked"]

\* std::path::PathBuf: its text, and whether it is valid Unicode
Path(text, unicode) == [text |-> text, unicode |-> unicode]
\* Path::join
Join(p, comp) == [p EXCEPT !.text = p.text \o "/" \o comp]
\* Path::to_str
ToStr(p) == IF p.unicode THEN Some(p.text) ELSE None

(* ------------------------------ inputs --------------------------------- *)
\* url: String, passed by the frontend, not inspected by the command
UrlList == <<"https://a.example", "https://b.example", "--config">>
Urls == {UrlList[i] : i \in 1..Len(UrlList)}
\* concurrent invocations are given different urls
UrlOf(c) == UrlList[((c - 1) % Len(UrlList)) + 1]
\* config: Option<String>
Configs == {None, Some("strict.json")}
\* concurrent invocations alternate between no config and a config
ConfigOf(c) == IF c % 2 = 0 THEN Some("strict.json") ELSE None
\* what std::env::current_dir() can answer
CurrentDirs == {[ok |-> FALSE, err |-> "No such file or directory"],
                [ok |-> TRUE, path |-> Path("/app", TRUE)],
                [ok |-> TRUE, path |-> Path("/app-non-unicode", FALSE)]}
\* what starting the child can answer
SpawnErrors == {"No such file or directory", "Permission denied"}
\* ExitStatus of the child; only exit code 0 is success()
Statuses == {"exit0", "exit1", "signal"}
Success(status) == status = "exit0"

\* documents a tool can print
Doc == [score    |-> <<123, 34, 115, 99, 111, 114, 101, 34, 58, 49, 125>>,
        null     |-> <<110, 117, 108, 108>>,
        notjson  |-> <<110, 111, 116, 45, 106, 115, 111, 110>>,
        badutf8  |-> <<34, 255, 34>>,
        list     |-> <<91, 49, 44, 32, 116, 114, 117, 101, 93>>,
        dupkey   |-> <<123, 34, 97, 34, 58, 49, 44, 34, 97, 34, 58, 91, 93, 125>>,
        padded   |-> <<32, 45, 49, 48, 10>>,
        trailing |-> <<49, 32, 49>>,
        timeout  |-> <<110, 101, 116, 119, 111, 114, 107, 32,
                       116, 105, 109, 101, 111, 117, 116>>,
        lossy    |-> <<97, 195, 169, 195, 255>>]

OutAlphabet == {B.lbrack, B.rbrack, B.quote, B.zero + 1, B.bad}
ErrAlphabet == {B.a, B.lead2, B.cont, B.bad}
SampleOut == {Doc.score, Doc.notjson}
SampleErr == {Doc.timeout, Doc.lossy}
AllOut == SeqsUpTo(OutAlphabet, MaxOut) \cup SampleOut
             \cup {Doc.null, Doc.badutf8, Doc.list, Doc.dupkey, Doc.padded,
                   Doc.trailing}
AllErr == SeqsUpTo(ErrAlphabet, MaxErr) \cup SampleErr

(* ------------------------------ state ---------------------------------- *)
VARIABLES
    pc,           \* pc[c]: where invocation c of run_seo_check stands
    url,          \* url[c]: its url argument
    config,       \* config[c]: its config argument
    app_dir,      \* app_dir[c]: the directory current_dir() answered
    args,         \* args[c]: the arguments given to cmd (program "node")
    spawned,      \* spawned[c]: child processes started by invocation c
    output,       \* output[c]: the Output of its child, once it exited
    steps,        \* steps[c]: the statements invocation c has executed
    ret,          \* ret[c]: what invocation c returned
    presets,      \* what the last get_available_presets call returned
    presetCalls   \* number of get_available_presets calls so far

vars == <<pc, url, config, app_dir, args, spawned, output, steps, ret,
          presets, presetCalls>>

NoOutput == [status |-> "none", stdout |-> <<>>, stderr |-> <<>>]
NoPath   == Path("", TRUE)

Init ==
    /\ pc = [c \in Calls |-> "idle"]
    /\ url = [c \in Calls |-> ""]
    /\ config = [c \in Calls |-> None]
    /\ app_dir = [c \in Calls |-> NoPath]
    /\ args = [c \in Calls |-> <<>>]
    /\ spawned = [c \in Calls |-> 0]
    /\ output = [c \in Calls |-> NoOutput]
    /\ steps = [c \in Calls |-> <<>>]
    /\ ret = [c \in Calls |-> Pending]
    /\ presets = Pending
    /\ presetCalls = 0

(* --------------------------- run_seo_check ----------------------------- *)
\* the frontend invokes run_seo_check(url, config) on a free task slot
Invoke(c, urls, cfgs) ==
    /\ pc[c] = "idle"
    /\ \E u \in urls, cfg \in cfgs :
          /\ url' = [url EXCEPT ![c] = u]
          /\ config' = [config EXCEPT ![c] = cfg]
    /\ pc' = [pc EXCEPT ![c] = "current_dir"]
    /\ steps' = [steps EXCEPT ![c] = <<"new">>]
    /\ UNCHANGED <<app_dir, args, spawned, output, ret, presets, presetCalls>>

\* let app_dir = std::env::current_dir().map_err(..)?
CurrentDir(c) ==
    /\ pc[c] = "current_dir"
    /\ steps' = [steps EXCEPT ![c] = Append(@, "current_dir")]
    /\ \E d \in CurrentDirs :
          IF d.ok
          THEN /\ app_dir' = [app_dir EXCEPT ![c] = d.path]
               /\ pc' = [pc EXCEPT ![c] = "args"]
               /\ ret' = ret
          ELSE /\ ret' = [ret EXCEPT ![c] =
                            Err("Failed to get current directory: " \o d.err)]
               /\ pc' = [pc EXCEPT ![c] = "done"]
               /\ app_dir' = app_dir
    /\ UNCHANGED <<url, config, args, spawned, output, presets, presetCalls>>

\* the argument list of lines 20-29
ArgList(dir, u, cfg) ==
    <<ToStr(Join(Join(dir, "dist"), "cli.js")).v, u, "--json">>
        \o (IF cfg.some THEN <<"--config", cfg.v>> ELSE <<>>)

\* cli_path = app_dir.join("dist").join("cli.js"); cli_path.to_str().unwrap()
\* panics when the path is not valid Unicode; then the arguments are added
BuildArgs(c) ==
    /\ pc[c] = "args"
    /\ steps' = [steps EXCEPT ![c] = Append(@, "args")]
    /\ IF ToStr(Join(Join(app_dir[c], "dist"), "cli.js")).some
       THEN /\ args' = [args EXCEPT ![c] = ArgList(app_dir[c], url[c], config[c])]
            /\ pc' = [pc EXCEPT ![c] = "output"]
            /\ ret' = ret
       ELSE /\ ret' = [ret EXCEPT ![c] = Panicked]
            /\ pc' = [pc EXCEPT ![c] = "done"]
            /\ args' = args
    /\ UNCHANGED <<url, config, app_dir, spawned, output, presets, presetCalls>>

\* SpawnChild as it would be if the launch error were ignored and the call
\* went on with an empty Output
MutSpawnChildIgnoresError(c) ==
    /\ pc[c] = "output"
    /\ steps' = [steps EXCEPT ![c] = Append(@, "spawn")]
    /\ \/ /\ spawned' = [spawned EXCEPT ![c] = @ + 1]
          /\ pc' = [pc EXCEPT ![c] = "running"]
       \/ /\ pc' = [pc EXCEPT ![c] = "status"]
          /\ spawned' = spawned
    /\ UNCHANGED <<url, config, app_dir, args, output, ret, presets, presetCalls>>

\* SpawnChild as it would be if a failed launch were tried a second time
MutSpawnChildRetries(c) ==
    /\ pc[c] = "output"
    /\ steps' = [steps EXCEPT ![c] = Append(@, "spawn")]
    /\ \/ /\ spawned' = [spawned EXCEPT ![c] = @ + 1]
          /\ pc' = [pc EXCEPT ![c] = "running"]
          /\ ret' = ret
       \/ /\ Len(steps[c]) < 4
          /\ pc' = pc
          /\ UNCHANGED <<spawned, ret>>
       \/ \E e \in SpawnErrors :
             /\ Len(steps[c]) >= 4
             /\ ret' = [ret EXCEPT ![c] =
                          Err("Failed to execute SEO checker: " \o e)]
             /\ pc' = [pc EXCEPT ![c] = "done"]
             /\ spawned' = spawned
    /\ UNCHANGED <<url, config, app_dir, args, output, presets, presetCalls>>

\* cmd.output().map_err(..)?, first half: the child is started, or cannot be
SpawnChild(c) ==
    /\ pc[c] = "output"
    /\ steps' = [steps EXCEPT ![c] = Append(@, "spawn")]
    /\ \/ /\ spawned' = [spawned EXCEPT ![c] = @ + 1]
          /\ pc' = [pc EXCEPT ![c] = "running"]
          /\ ret' = ret
       \/ \E e \in SpawnErrors :
             /\ ret' = [ret EXCEPT ![c] =
                          Err("Failed to execute SEO checker: " \o e)]
             /\ pc' = [pc EXCEPT ![c] = "done"]
             /\ spawned' = spawned
    /\ UNCHANGED <<url, config, app_dir, args, output, presets, presetCalls>>

\* cmd.output(), second half: the child exits and its status, stdout and
\* stderr are captured in full; a child that never exits leaves the call here
ChildExit(c, outs, errs) ==
    /\ pc[c] = "running"
    /\ \E st \in Statuses, so \in outs, se \in errs :
          output' = [output EXCEPT ![c] =
                       [status |-> st, stdout |-> so, stderr |-> se]]
    /\ pc' = [pc EXCEPT ![c] = "status"]
    /\ UNCHANGED <<url, config, app_dir, args, spawned, steps, ret,
                   presets, presetCalls>>

\* CheckStatus as it would be if output on stderr counted as a failure
MutCheckStatusStderr(c) ==
    /\ pc[c] = "status"
    /\ steps' = [steps EXCEPT ![c] = Append(@, "status")]
    /\ pc' = [pc EXCEPT ![c] =
                IF Success(output[c].status) /\ output[c].stderr = <<>>
                THEN "parse" ELSE "stderr"]
    /\ UNCHANGED <<url, config, app_dir, args, spawned, output, ret,
                   presets, presetCalls>>

\* if output.status.success()
CheckStatus(c) ==
    /\ pc[c] = "status"
    /\ steps' = [steps EXCEPT ![c] = Append(@, "status")]
    /\ pc' = [pc EXCEPT ![c] =
                IF Success(output[c].status) THEN "parse" ELSE "stderr"]
    /\ UNCHANGED <<url, config, app_dir, args, spawned, output, ret,
                   presets, presetCalls>>

\* SuccessBranch as it would be if the record also carried an error text
MutSuccessBranchKeepsError(stdout) ==
    LET data == FromStr(FromUtf8Lossy(stdout)) IN
    IF data.ok THEN Ok(SeoCheckResult(TRUE, Some(data.val), Some(<<>>)))
    ELSE Err("Failed to parse JSON output: " \o data.err)

\* lines 36-44: the value of the success branch
SuccessBranch(stdout) ==
    LET data == FromStr(FromUtf8Lossy(stdout)) IN
    IF data.ok THEN Ok(SeoCheckResult(TRUE, Some(data.val), None))
    ELSE Err("Failed to parse JSON output: " \o data.err)

ParseStdout(c) ==
    /\ pc[c] = "parse"
    /\ steps' = [steps EXCEPT ![c] = Append(@, "parse")]
    /\ ret' = [ret EXCEPT ![c] = SuccessBranch(output[c].stdout)]
    /\ pc' = [pc EXCEPT ![c] = "done"]
    /\ UNCHANGED <<url, config, app_dir, args, spawned, output,
                   presets, presetCalls>>

\* FailureBranch as it would be with String::from_utf8 and `?`
MutFailureBranchStrict(stderr) ==
    IF ValidUtf8(stderr)
    THEN Ok(SeoCheckResult(FALSE, None, Some(FromUtf8Lossy(stderr))))
    ELSE Err("invalid utf-8 sequence")

\* lines 46-51: the value of the failure branch
FailureBranch(stderr) ==
    Ok(SeoCheckResult(FALSE, None, Some(FromUtf8Lossy(stderr))))

\* DecodeStderr as it would be if the Output were kept in one shared place
MutDecodeStderrShared(c) ==
    /\ pc[c] = "stderr"
    /\ steps' = [steps EXCEPT ![c] = Append(@, "stderr")]
    /\ ret' = [ret EXCEPT ![c] = FailureBranch(output[1].stderr)]
    /\ pc' = [pc EXCEPT ![c] = "done"]
    /\ UNCHANGED <<url, config, app_dir, args, spawned, output,
                   presets, presetCalls>>

DecodeStderr(c) ==
    /\ pc[c] = "stderr"
    /\ steps' = [steps EXCEPT ![c] = Append(@, "stderr")]
    /\ ret' = [ret EXCEPT ![c] = FailureBranch(output[c].stderr)]
    /\ pc' = [pc EXCEPT ![c] = "done"]
    /\ UNCHANGED <<url, config, app_dir, args, spawned, output,
                   presets, presetCalls>>

\* the task of the invocation ends (cmd, output and the buffers are dropped)
\* and its slot is free for the next invocation
Finish(c) ==
    /\ pc[c] = "done"
    /\ pc' = [pc EXCEPT ![c] = "idle"]
    /\ url' = [url EXCEPT ![c] = ""]
    /\ config' = [config EXCEPT ![c] = None]
    /\ app_dir' = [app_dir EXCEPT ![c] = NoPath]
    /\ args' = [args EXCEPT ![c] = <<>>]
    /\ spawned' = [spawned EXCEPT ![c] = 0]
    /\ output' = [output EXCEPT ![c] = NoOutput]
    /\ steps' = [steps EXCEPT ![c] = <<>>]
    /\ ret' = [ret EXCEPT ![c] = Pending]
    /\ UNCHANGED <<presets, presetCalls>>

(* ------------------------ get_available_presets ------------------------ *)
\* AvailablePresets with two entries exchanged
MutAvailablePresets == <<"basic", "strict", "advanced">>

AvailablePresets == <<"basic", "advanced", "strict">>

GetAvailablePresets ==
    /\ presetCalls < MaxPresetCalls
    /\ presetCalls' = presetCalls + 1
    /\ presets' = Ok(AvailablePresets)
    /\ UNCHANGED <<pc, url, config, app_dir, args, spawned, output, steps, ret>>

(* --------------------------- specifications ---------------------------- *)
\* no other invocation is in flight, and c is the first task slot
Alone(c) == \A d \in Calls : pc[d] = "idle" /\ c <= d

\* invocations of run_seo_check one after the other, every url and every
\* output of the byte alphabets
Next ==
    \/ \E c \in Calls : Alone(c) /\ Invoke(c, Urls, Configs)
    \/ \E c \in Calls : CurrentDir(c)
    \/ \E c \in Calls : BuildArgs(c)
    \/ \E c \in Calls : SpawnChild(c)
    \/ \E c \in Calls : ChildExit(c, AllOut, AllErr)
    \/ \E c \in Calls : CheckStatus(c)
    \/ \E c \in Calls : ParseStdout(c)
    \/ \E c \in Calls : DecodeStderr(c)
    \/ \E c \in Calls : Finish(c)

Spec == Init /\ [][Next]_vars

\* concurrent invocations of both commands in every interleaving, the
\* sample outputs
NextConc ==
    \/ \E c \in Calls : Invoke(c, {UrlOf(c)}, {ConfigOf(c)})
    \/ \E c \in Calls : CurrentDir(c)
    \/ \E c \in Calls : BuildArgs(c)
    \/ \E c \in Calls : SpawnChild(c)
    \/ \E c \in Calls : ChildExit(c, SampleOut, SampleErr)
    \/ \E c \in Calls : CheckStatus(c)
    \/ \E c \in Calls : ParseStdout(c)
    \/ \E c \in Calls : DecodeStderr(c)
    \/ \E c \in Calls : Finish(c)
    \/ GetAvailablePresets

SpecConc == Init /\ [][NextConc]_vars

TypeOK ==
    /\ \A c \in Calls : pc[c] \in {"idle", "current_dir", "args", "output",
                                   "running", "status", "parse", "stderr", "done"}
    /\ \A c \in Calls : ret[c].kind \in {"Pending", "Ok", "Err", "Panicked"}
    /\ presetCalls \in 0..MaxPresetCalls

(* ------------------------------ properties ----------------------------- *)
Done(c)   == pc[c] = "done"
\* the child of invocation c ran and its Output was captured
Exited(c) == output[c].status # "none"
Range(f)  == {f[i] : i \in DOMAIN f}
Count(f, x) == Cardinality({i \in DOMAIN f : f[i] = x})

\* bytes that are a well-formed JSON document: valid UTF-8 whose text parses
WellFormedJson(bytes) == ValidUtf8(bytes) /\ FromStr(FromUtf8Lossy(bytes)).ok

CwdMessages   == {"Failed to get current directory: " \o d.err :
                     d \in {x \in CurrentDirs : ~x.ok}}
SpawnMessages == {"Failed to execute SEO checker: " \o e : e \in SpawnErrors}

\* C1: every result record returned by run_seo_check has exactly one of
\* data and error populated, and success is true exactly when it is data.
C1_ExactlyOnePopulated ==
    \A c \in Calls :
        ret[c].kind = "Ok" =>
            /\ ret[c].value.data.some # ret[c].value.error.some
            /\ ret[c].value.success <=> ret[c].value.data.some

\* a Success record whose data is the JSON value null, and so Some(Null)
C1_Witness ==
    \E c \in Calls :
        /\ Done(c) /\ output[c].stdout = Doc.null
        /\ ret[c] = Ok(SeoCheckResult(TRUE, Some(JNull), None))

\* C2: when the child was started and ended with a non-success status, the
\* call returns the Failure record whose message is the leniently decoded
\* stderr, whatever stdout and stderr hold; never a call-level error.
C2_FailureIsData ==
    \A c \in Calls :
        (Done(c) /\ Exited(c) /\ ~Success(output[c].status)) =>
            /\ ret[c] = Ok(SeoCheckResult(FALSE, None,
                              Some(FromUtf8Lossy(output[c].stderr))))
            /\ output[c].stderr = Doc.timeout =>
                   ret[c].value.error.v = Doc.timeout
            /\ output[c].stderr = Doc.lossy =>
                   ret[c].value.error.v = <<97, 233, B.fffd, B.fffd>>

\* a child killed by a signal whose stderr is not valid UTF-8
C2_Witness ==
    \E c \in Calls :
        /\ Done(c) /\ output[c].status = "signal"
        /\ output[c].stderr = Doc.lossy /\ output[c].stdout = Doc.score
        /\ ret[c].kind = "Ok" /\ ~ret[c].value.success

\* C3: when the child exits with success but its stdout is not well-formed
\* JSON, the call ends with a call-level error and returns no result record.
C3_MalformedIsError ==
    \A c \in Calls :
        (Done(c) /\ Success(output[c].status)
                 /\ ~WellFormedJson(output[c].stdout)) =>
            ret[c].kind = "Err"

\* C4: with config absent, when the child exits with success and its stdout
\* is a well-formed JSON document, the call returns the Success record whose
\* data is the value parsed from stdout, whatever stderr holds.
C4_SuccessCarriesParsedValue ==
    \A c \in Calls :
        (Done(c) /\ ~config[c].some /\ Success(output[c].status)
                 /\ WellFormedJson(output[c].stdout)) =>
            /\ ret[c] = Ok(SeoCheckResult(TRUE,
                              Some(FromStr(FromUtf8Lossy(output[c].stdout)).val),
                              None))
            /\ output[c].stdout = Doc.score =>
                   ret[c].value.data.v =
                       JObject(<<115, 99, 111, 114, 101>> :> JNumber(1))

\* {"score":1} on stdout together with a diagnostic on stderr
C4_Witness ==
    \E c \in Calls :
        /\ Done(c) /\ ~config[c].some /\ output[c].status = "exit0"
        /\ output[c].stdout = Doc.score /\ output[c].stderr = Doc.timeout
        /\ ret[c].kind = "Ok" /\ ret[c].value.success

\* the launch of the child was attempted and failed
SpawnFailed(c) == "spawn" \in Range(steps[c]) /\ spawned[c] = 0

\* C5: when the child cannot be started the call ends with the spawn error,
\* and no exit-status inspection, JSON parse or stderr decoding has occurred.
C5_SpawnErrorBeforeParsing ==
    \A c \in Calls :
        SpawnFailed(c) =>
            /\ Done(c)
            /\ ret[c].kind = "Err" /\ ret[c].msg \in SpawnMessages
            /\ Range(steps[c]) \cap {"status", "parse", "stderr"} = {}
            /\ ~Exited(c)

C5_Witness ==
    \E c \in Calls :
        /\ SpawnFailed(c)
        /\ ret[c] = Err("Failed to execute SEO checker: Permission denied")

\* the arguments the tool dist/cli.js receives: those after its own path
ToolArgs(c) == Tail(args[c])

\* C6: with configRef provided the tool's argument list is
\* <url> --json --config <configRef>; with configRef omitted it is
\* <url> --json and no --config appears anywhere in it.
C6_ArgumentList ==
    \A c \in Calls :
        pc[c] \in {"output", "running", "status", "parse", "stderr"} =>
            IF config[c].some
            THEN ToolArgs(c) = <<url[c], "--json", "--config", config[c].v>>
            ELSE /\ ToolArgs(c) = <<url[c], "--json">>
                 /\ \A i \in DOMAIN ToolArgs(c) : ToolArgs(c)[i] # "--config"

\* C7: every invocation of run_seo_check spawns exactly one external
\* process, on every path through the call.
C7_ExactlyOneProcess ==
    \A c \in Calls : Done(c) => spawned[c] = 1

\* the call ended before a child existed: working directory unavailable,
\* CLI path not representable, or launch failed
EndedBeforeChild(c) ==
    \/ ret[c].kind = "Panicked"
    \/ ret[c].kind = "Err" /\ ret[c].msg \in CwdMessages \cup SpawnMessages

\* C7 (amended): every invocation attempts the launch at most once and never
\* spawns more than one process; a completed invocation has spawned exactly
\* one process unless it ended before a child existed, and then none.
C7_AtMostOneProcess ==
    \A c \in Calls :
        /\ spawned[c] <= 1
        /\ Count(steps[c], "spawn") <= 1
        /\ Done(c) => spawned[c] = (IF EndedBeforeChild(c) THEN 0 ELSE 1)

\* a call that spawned its one process and then failed on malformed output
C7_Witness ==
    \E c \in Calls :
        /\ Done(c) /\ spawned[c] = 1 /\ output[c].stdout = Doc.notjson
        /\ ret[c] = Err("Failed to parse JSON output: ExpectedSomeIdent")

\* the result that the Output of a child determines
ResultOf(o) ==
    IF Success(o.status) THEN SuccessBranch(o.stdout)
    ELSE FailureBranch(o.stderr)

\* C8: under every interleaving of concurrent invocations with different
\* urls, the result of an invocation is determined by the exit status and
\* output of its own child alone.
C8_NoInterference ==
    \A c \in Calls :
        (Done(c) /\ Exited(c)) =>
            /\ ret[c] = ResultOf(output[c])
            /\ \A d \in Calls :
                  (Done(d) /\ output[d] = output[c]) => ret[d] = ret[c]

\* two invocations with different urls, done together, with different results
C8_Witness ==
    \E c, d \in Calls :
        /\ c # d /\ url[c] # url[d] /\ Done(c) /\ Done(d)
        /\ Exited(c) /\ Exited(d)
        /\ ret[c].kind = "Ok" /\ ret[c].value.success
        /\ ret[d].kind = "Ok" /\ ~ret[d].value.success

\* C9: get_available_presets returns ["basic", "advanced", "strict"] in that
\* order and never fails, whatever the number of calls and whatever
\* run_seo_check invocations run beside it.
C9_Presets ==
    presetCalls > 0 => presets = Ok(<<"basic", "advanced", "strict">>)

\* called repeatedly while an invocation of run_seo_check waits for its child
C9_Witness ==
    /\ presetCalls = MaxPresetCalls
    /\ presets.kind = "Ok"
    /\ \E c \in Calls : pc[c] = "running"

\* C10: every invocation that ends, ends as a Success record, a Failure
\* record or a call-level error with a descriptive string, and in no other
\* way such as an abort.
C10_EndsWithResultOrError ==
    \A c \in Calls : Done(c) => ret[c].kind \in {"Ok", "Err"}

====
